---- MODULE Spec2Model ----
(***************************************************************************)
(* The four key indexers of gnes/indexer/key_only.py: DictKeyIndexer,      *)
(* ListKeyIndexer, ListNumpyKeyIndexer and NumpyKeyIndexer.                *)
(*                                                                         *)
(* One instance of each class is kept side by side and every call (add,    *)
(* query, the statistics properties) is issued to all four with the same   *)
(* arguments, so that the backends can be compared on the same history.    *)
(* Each method is an operator from the object's fields and the arguments   *)
(* to the new fields and the outcome of the call: a returned value or the  *)
(* exception raised.                                                       *)
(*                                                                         *)
(* Python values: a list is a sequence (Python index k is TLA+ index       *)
(* k + 1), a tuple is a sequence, a dict is a function on its key set.     *)
(* A weight is a float; the model writes it in tenths (5 is 0.5).          *)
(* Document ids and offsets are integers below 2^31, which float64 holds   *)
(* exactly.                                                                *)
(***************************************************************************)
EXTENDS Integers, Sequences, FiniteSets, TLC

VARIABLES dictIdx, listIdx, lnpIdx, npIdx, call, ret, hist

vars == <<dictIdx, listIdx, lnpIdx, npIdx, call, ret, hist>>

(***************************************************************************)
(* Bounds of the model.                                                    *)
(***************************************************************************)
\* The longest batch of records, and the longest list of weights, passed to add.
MaxLen == 3

\* add is issued while the records passed to add so far, the batch included,
\* number at most MaxRows.
MaxRows == 3

\* NumpyKeyIndexer._buffer_size, the growth chunk.  The source sets it to 10000
\* (line 140); the model takes a small stand-in so that growth is reached.
\* No definition below depends on its value.
BufferSizeDefault == 2

\* The default of NumpyKeyIndexer's col_size parameter.
ColSizeDefault == 3

(***************************************************************************)
(* Outcomes of a call.                                                     *)
(***************************************************************************)
Ok(v) == [err |-> "", val |-> v]

Raise(e) == [err |-> e, val |-> <<>>]

Max(a, b) == IF a >= b THEN a ELSE b

Min(a, b) == IF a <= b THEN a ELSE b

(***************************************************************************)
(* Python and numpy helpers.                                               *)
(***************************************************************************)
\* len(set(xs))
LenSet(xs) == Cardinality({xs[i] : i \in 1..Len(xs)})

RECURSIVE Gcd(_, _)
Gcd(a, b) == IF b = 0 THEN a ELSE Gcd(b, a % b)

\* a / b on Python ints: the quotient, kept as a fraction in lowest terms, or
\* ZeroDivisionError.
TrueDiv(a, b) ==
  IF b = 0 THEN Raise("ZeroDivisionError")
  ELSE Ok(<<a \div Gcd(a, b), b \div Gcd(a, b)>>)

\* seq[k] for a Python index k on a sequence of n items: valid for -n <= k < n,
\* a negative k counting from the end.
ValidIndex(k, n) == -n <= k /\ k < n

PyIndex(k, n) == IF k < 0 THEN k + n + 1 ELSE k + 1

\* An ndarray: its shape and its items (the rows, when it has two dimensions).
\* NoneValue stands for Python's None in a field that later holds an ndarray.
NoneValue == [isNone |-> TRUE, shape |-> <<>>, data |-> <<>>]

NdArray(shape, data) == [isNone |-> FALSE, shape |-> shape, data |-> data]

\* np.array(rows) for a list of n tuples of width w: shape (n, w), and shape (0,)
\* for the empty list, whose width numpy cannot know.
ArrayOfTuples(rows, w) ==
  IF Len(rows) = 0 THEN NdArray(<<0>>, <<>>) ELSE NdArray(<<Len(rows), w>>, rows)

\* np.array(xs) for a list of n numbers: shape (n,).
ArrayOfScalars(xs) == NdArray(<<Len(xs)>>, xs)

\* np.zeros([n, c])
Zeros(n, c) == NdArray(<<n, c>>, [i \in 1..n |-> [j \in 1..c |-> 0]])

\* A growth that allocates the longer buffer without copying the old rows.
ConcatenateNoCopy(a, b) ==
  NdArray(<<a.shape[1] + b.shape[1], a.shape[2]>>,
          [i \in 1..a.shape[1] |-> [j \in 1..a.shape[2] |-> 0]] \o b.data)

\* np.concatenate([a, b]) along the first axis
Concatenate(a, b) == NdArray(<<a.shape[1] + b.shape[1], a.shape[2]>>, a.data \o b.data)

RECURSIVE Product(_)
Product(shape) == IF shape = <<>> THEN 1 ELSE Head(shape) * Product(Tail(shape))

\* The outcomes of bool(x), as `not x` evaluates it: None is false; an ndarray
\* of one item has that item's truth; one of several items raises ValueError
\* (ambiguous truth value); an empty one is false under numpy before 2.2 (with a
\* DeprecationWarning) and raises ValueError from 2.2 on.
Truth(x) ==
  IF x.isNone THEN {"False"}
  ELSE IF Product(x.shape) = 0 THEN {"False", "ValueError"}
  ELSE IF Product(x.shape) > 1 THEN {"ValueError"}
  ELSE IF Len(x.shape) = 1 /\ x.data[1] = 0 THEN {"False"}
  ELSE {"True"}

\* Whether numpy broadcasts a value of shape src into a target of shape dst:
\* aligned from the last axis, each axis of src equals that of dst or is 1.
CanBroadcast(src, dst) ==
  /\ Len(src) <= Len(dst)
  /\ \A i \in 1..Len(src) :
       \/ src[Len(src) + 1 - i] = dst[Len(dst) + 1 - i]
       \/ src[Len(src) + 1 - i] = 1

\* The row indices (TLA+ indices) that the slice a[lo:hi] selects in an array of
\* n rows, for 0 <= lo <= hi: Python clips both ends to n.
SliceRows(n, lo, hi) == [j \in 1..(Min(hi, n) - Min(lo, n)) |-> Min(lo, n) + j]

(***************************************************************************)
(* BaseKeyIndexer.__init__ is not in key_only.py; the counters it creates  *)
(* start at zero.                                                          *)
(***************************************************************************)
BaseKeyIndexerInit == [num_doc |-> 0, num_chunks |-> 0]

(***************************************************************************)
(* DictKeyIndexer                                                          *)
(***************************************************************************)
EmptyDict == [k \in {} |-> <<>>]

DictKeyIndexerInit ==
  [key_info |-> EmptyDict, all_docs |-> <<>>,
   num_doc |-> BaseKeyIndexerInit.num_doc, num_chunks |-> BaseKeyIndexerInit.num_chunks]

\* d[k] = v
SetItem(d, k, v) == [x \in (DOMAIN d) \cup {k} |-> IF x = k THEN v ELSE d[x]]

\* A loop that keeps the entry a key already has (first write wins).
RECURSIVE DictSetItemsKeepFirst(_, _, _, _)
DictSetItemsKeepFirst(key_info, keys, weights, i) ==
  IF i > Min(Len(keys), Len(weights)) THEN key_info
  ELSE DictSetItemsKeepFirst(
         IF keys[i][1] \in DOMAIN key_info THEN key_info
         ELSE SetItem(key_info, keys[i][1], <<keys[i][2], weights[i]>>),
         keys, weights, i + 1)

\* for (k, o), w in zip(keys, weights): self._key_info[k] = o, w
\* zip stops at the shorter of the two lists.
RECURSIVE DictSetItems(_, _, _, _)
DictSetItems(key_info, keys, weights, i) ==
  IF i > Min(Len(keys), Len(weights)) THEN key_info
  ELSE DictSetItems(SetItem(key_info, keys[i][1], <<keys[i][2], weights[i]>>),
                    keys, weights, i + 1)

DictUpdateCounter(self, keys) ==
  [self EXCEPT !.num_doc = Cardinality(DOMAIN self.key_info),
               !.num_chunks = @ + Len(keys)]

DictAdd(self, keys, weights) ==
  LET s1 == [self EXCEPT !.key_info = DictSetItems(@, keys, weights, 1)]
      s2 == DictUpdateCounter(s1, keys)
  IN  [self |-> s2, ret |-> Ok(Cardinality(DOMAIN s2.key_info))]

DictQuery(self, keys) ==
  IF \E i \in 1..Len(keys) : keys[i] \notin DOMAIN self.key_info
  THEN [self |-> self, ret |-> Raise("KeyError")]
  ELSE [self |-> self,
        ret |-> Ok([i \in 1..Len(keys) |->
                     <<keys[i], self.key_info[keys[i]][1], self.key_info[keys[i]][2]>>])]

DictNumChunks(self) == Ok(self.num_chunks)

DictNumDoc(self) == Ok(self.num_doc)

DictNumChunksAvg(self) == TrueDiv(self.num_doc, Cardinality(DOMAIN self.key_info))

(***************************************************************************)
(* ListKeyIndexer                                                          *)
(***************************************************************************)
ListKeyIndexerInit ==
  [int2key |-> <<>>, int2key_weight |-> <<>>, all_docs |-> <<>>,
   num_chunks |-> BaseKeyIndexerInit.num_chunks]

\* An _update_docs that appends the offset of each record instead of its
\* document id.
ListUpdateDocsOffsets(self, keys) ==
  [self EXCEPT !.all_docs = @ \o [i \in 1..Len(keys) |-> keys[i][2]]]

\* for key in keys: self._all_docs.append(key[0])
ListUpdateDocs(self, keys) ==
  [self EXCEPT !.all_docs = @ \o [i \in 1..Len(keys) |-> keys[i][1]]]

\* A counter that counts the calls of add instead of the records.
ListUpdateCounterPerCall(self, keys) ==
  [ListUpdateDocs(self, keys) EXCEPT !.num_chunks = @ + 1]

ListUpdateCounter(self, keys) ==
  [ListUpdateDocs(self, keys) EXCEPT !.num_chunks = @ + Len(keys)]

ListAdd(self, keys, weights) ==
  IF Len(keys) # Len(weights) THEN [self |-> self, ret |-> Raise("ValueError")]
  ELSE LET s1 == [self EXCEPT !.int2key = @ \o keys]
           s2 == [s1 EXCEPT !.int2key_weight = @ \o weights]
           s3 == ListUpdateCounter(s2, keys)
       IN  [self |-> s3, ret |-> Ok(Len(s3.int2key))]

\* [(*self._int2key[k], self._int2key_weight[k]) for k in keys]
ListQuery(self, keys) ==
  IF \E i \in 1..Len(keys) :
       \/ ~ValidIndex(keys[i], Len(self.int2key))
       \/ ~ValidIndex(keys[i], Len(self.int2key_weight))
  THEN [self |-> self, ret |-> Raise("IndexError")]
  ELSE [self |-> self,
        ret |-> Ok([i \in 1..Len(keys) |->
                     LET ko == self.int2key[PyIndex(keys[i], Len(self.int2key))]
                         w == self.int2key_weight[PyIndex(keys[i], Len(self.int2key_weight))]
                     IN  <<ko[1], ko[2], w>>])]

ListNumChunks(self) == Ok(self.num_chunks)

ListNumDoc(self) == Ok(LenSet(self.all_docs))

ListNumChunksAvg(self) == TrueDiv(self.num_chunks, LenSet(self.all_docs))

(***************************************************************************)
(* ListNumpyKeyIndexer (a ListKeyIndexer with two cached ndarrays)         *)
(***************************************************************************)
ListNumpyKeyIndexerInit ==
  [int2key |-> ListKeyIndexerInit.int2key,
   int2key_weight |-> ListKeyIndexerInit.int2key_weight,
   num_chunks |-> ListKeyIndexerInit.num_chunks,
   data_updated |-> FALSE, np_int2key |-> NoneValue, np_int2key_weight |-> NoneValue,
   all_docs |-> <<>>]

\* The outcomes of the condition of _build_np_buffer,
\*   self._data_updated or not self._np_int2key or not self._np_int2key_weight
\* evaluated left to right: "build", "skip", or the ValueError of an ndarray's
\* truth value.
LnpBuildDecisions(self) ==
  IF self.data_updated THEN {"build"}
  ELSE UNION {
         IF t1 = "ValueError" THEN {"ValueError"}
         ELSE IF t1 = "False" THEN {"build"}
         ELSE { IF t2 = "ValueError" THEN "ValueError"
                ELSE IF t2 = "False" THEN "build" ELSE "skip"
                : t2 \in Truth(self.np_int2key_weight) }
         : t1 \in Truth(self.np_int2key) }

\* A rebuild that moves the records into the arrays and empties the lists.
LnpRebuildDraining(self) ==
  [self EXCEPT !.np_int2key = ArrayOfTuples(self.int2key, 2),
               !.np_int2key_weight = ArrayOfScalars(self.int2key_weight),
               !.int2key = <<>>, !.int2key_weight = <<>>]

\* The assignments of _build_np_buffer: np.array(self._int2key, int) and
\* np.array(self._int2key_weight, float).
LnpRebuild(self) ==
  [self EXCEPT !.np_int2key = ArrayOfTuples(self.int2key, 2),
               !.np_int2key_weight = ArrayOfScalars(self.int2key_weight)]

LnpBuildNpBuffer(self) ==
  { [self |-> IF d = "build" THEN LnpRebuild(self) ELSE self,
     err |-> IF d = "ValueError" THEN "ValueError" ELSE ""]
    : d \in LnpBuildDecisions(self) }

LnpAdd(self, keys, weights) ==
  ListAdd([self EXCEPT !.data_updated = TRUE], keys, weights)

\* Lines 125-127: the two gathers and the zip.  Indexing a one-dimensional
\* array with [keys, 0:2] raises IndexError (too many indices), whatever keys is.
LnpGather(self, keys) ==
  LET a == self.np_int2key
      w == self.np_int2key_weight
  IN  IF Len(a.shape) < 2 THEN [self |-> self, ret |-> Raise("IndexError")]
      ELSE IF \E i \in 1..Len(keys) : ~ValidIndex(keys[i], a.shape[1])
      THEN [self |-> self, ret |-> Raise("IndexError")]
      ELSE IF \E i \in 1..Len(keys) : ~ValidIndex(keys[i], w.shape[1])
      THEN [self |-> self, ret |-> Raise("IndexError")]
      ELSE [self |-> self,
            ret |-> Ok([i \in 1..Len(keys) |->
                         LET ko == a.data[PyIndex(keys[i], a.shape[1])]
                         IN  <<ko[1], ko[2], w.data[PyIndex(keys[i], w.shape[1])]>>])]

\* The set of outcomes of query: one per outcome of _build_np_buffer.
LnpQuery(self, keys) ==
  { IF b.err # "" THEN [self |-> b.self, ret |-> Raise(b.err)]
    ELSE LnpGather(b.self, keys)
    : b \in LnpBuildNpBuffer(self) }

(***************************************************************************)
(* NumpyKeyIndexer                                                         *)
(***************************************************************************)
NumpyKeyIndexerInit(buffer_size, col_size) ==
  [int2key_info |-> Zeros(buffer_size, col_size),
   buffer_size |-> BufferSizeDefault,
   col_size |-> col_size,
   size |-> 0,
   max_size |-> BufferSizeDefault,
   all_docs |-> <<>>,
   num_chunks |-> BaseKeyIndexerInit.num_chunks]

\* a[lo:hi, 0:ncols] = value, for value's rows broadcast over the selected rows
\* (a single value row is repeated).
SetKeyColumns(a, lo, hi, ncols, value) ==
  LET sel == SliceRows(a.shape[1], lo, hi)
  IN  NdArray(a.shape,
        [r \in 1..Len(a.data) |->
          IF \E j \in 1..Len(sel) : sel[j] = r
          THEN LET j == CHOOSE j \in 1..Len(sel) : sel[j] = r
                   v == value[IF Len(value) = 1 THEN 1 ELSE j]
               IN  [c \in 1..Len(a.data[r]) |-> IF c <= ncols THEN v[c] ELSE a.data[r][c]]
          ELSE a.data[r]])

\* a[lo:hi, col] = value, for a list of numbers broadcast over the selected rows.
SetColumn(a, lo, hi, col, value) ==
  LET sel == SliceRows(a.shape[1], lo, hi)
  IN  NdArray(a.shape,
        [r \in 1..Len(a.data) |->
          IF \E j \in 1..Len(sel) : sel[j] = r
          THEN LET j == CHOOSE j \in 1..Len(sel) : sel[j] = r
                   v == value[IF Len(value) = 1 THEN 1 ELSE j]
               IN  [c \in 1..Len(a.data[r]) |-> IF c = col THEN v ELSE a.data[r][c]]
          ELSE a.data[r]])

NpUpdateDocs(self, keys) ==
  [self EXCEPT !.all_docs = @ \o [i \in 1..Len(keys) |-> keys[i][1]]]

\* A counter that holds the length of the last batch instead of the total.
NpUpdateCounterLastBatch(self, keys) ==
  [NpUpdateDocs(self, keys) EXCEPT !.num_chunks = Len(keys)]

NpUpdateCounter(self, keys) ==
  [NpUpdateDocs(self, keys) EXCEPT !.num_chunks = @ + Len(keys)]

\* Lines 148-151: the buffer grows when the batch does not fit in _max_size.
NpGrow(self, l) ==
  IF self.size + l > self.max_size
  THEN LET extend_size == Max(l, self.buffer_size)
       IN  [self EXCEPT
              !.int2key_info = Concatenate(@, Zeros(extend_size, self.col_size)),
              !.max_size = @ + extend_size]
  ELSE self

NpAdd(self, keys, weights) ==
  LET l == Len(keys)
      s1 == NpGrow(self, l)
      nsel == Len(SliceRows(s1.int2key_info.shape[1], s1.size, s1.size + l))
      keysArr == ArrayOfTuples(keys, 2)
      weightsArr == ArrayOfScalars(weights)
      \* line 153
      s2 == [s1 EXCEPT !.int2key_info =
               SetKeyColumns(@, s1.size, s1.size + l, s1.col_size - 1, keysArr.data)]
      \* line 154
      s3 == [s2 EXCEPT !.int2key_info =
               SetColumn(@, s2.size, s2.size + l, s2.col_size, weightsArr.data)]
      s4 == [s3 EXCEPT !.size = @ + l]
      s5 == NpUpdateCounter(s4, keys)
  IN  IF ~CanBroadcast(keysArr.shape, <<nsel, s1.col_size - 1>>)
      THEN [self |-> s1, ret |-> Raise("ValueError")]
      ELSE IF ~CanBroadcast(weightsArr.shape, <<nsel>>)
      THEN [self |-> s2, ret |-> Raise("ValueError")]
      ELSE [self |-> s5, ret |-> Ok(s5.size)]

\* Lines 160-162: the two gathers over the buffer's rows and the zip.
NpQuery(self, keys) ==
  LET a == self.int2key_info
  IN  IF \E i \in 1..Len(keys) : ~ValidIndex(keys[i], a.shape[1])
      THEN [self |-> self, ret |-> Raise("IndexError")]
      ELSE [self |-> self,
            ret |-> Ok([i \in 1..Len(keys) |->
                         LET row == a.data[PyIndex(keys[i], a.shape[1])]
                         IN  SubSeq(row, 1, self.col_size - 1) \o <<row[self.col_size]>>])]

NpNumChunks(self) == Ok(self.num_chunks)

NpNumDoc(self) == Ok(LenSet(self.all_docs))

NpNumChunksAvg(self) == TrueDiv(self.num_chunks, LenSet(self.all_docs))

NpCapacity(self) == Ok(self.max_size)

(***************************************************************************)
(* The arguments of the calls.                                             *)
(***************************************************************************)
\* The buffer_size given to NumpyKeyIndexer: none, less than, equal to and more
\* than the growth chunk.
InitBufferSizes == {0, 1, BufferSizeDefault, BufferSizeDefault + 1}

\* Batches of records: n (document_id, offset) pairs over the documents 0 and 1,
\* two records to a document, starting at document d.  SampleKeys(0, 3) is
\* [(0,0), (0,1), (1,0)].
SampleKeys(d, n) == [i \in 1..n |-> <<(d + (i - 1) \div 2) % 2, (i - 1) % 2>>]

\* Weights in tenths, all positive; SampleWeights(0, 3) is [0.5, 0.4, 0.9].
WeightStream == <<5, 4, 9, 7, 6, 3, 8, 2>>

SampleWeights(d, m) == [i \in 1..m |-> WeightStream[((4 * d + i - 1) % 8) + 1]]

\* The lists of records and of weights may differ in length.
Batches ==
  { [keys |-> SampleKeys(d, n), weights |-> SampleWeights(d, m)]
    : d \in {0, 1}, n \in 0..MaxLen, m \in 0..MaxLen }

\* Keys asked of query: assigned and unassigned, and Python's negative index.
KeyRange == -1..MaxRows

KeyLists == {<<>>} \cup {<<k>> : k \in KeyRange} \cup {<<j, k>> : j, k \in KeyRange}

\* The key lists the Query action is issued with: every list of at most one
\* key, and the first two keys in both orders and repeated.
QueryArgs == {ks \in KeyLists : Len(ks) = 2 => ks \in {<<0, 1>>, <<1, 0>>, <<0, 0>>}}

(***************************************************************************)
(* The calls.  call holds the last call and its arguments, ret what each   *)
(* indexer answered.  hist records what the calls so far did: for each     *)
(* positional indexer the document ids of the records of the adds that     *)
(* returned, the rows NumpyKeyIndexer's constructor allocated, whether     *)
(* every add so far passed one record and one weight, and how many adds    *)
(* ran np.concatenate (line 150).                                          *)
(***************************************************************************)
\* The document ids of a batch of records.
DocIds(keys) == {keys[i][1] : i \in 1..Len(keys)}

HistInit(initRows) ==
  [list |-> {}, lnp |-> {}, np |-> {},
   initRows |-> initRows, singleRow |-> TRUE, reallocs |-> 0]

HistAdd(keys, weights) ==
  [hist EXCEPT
     !.list = IF ListAdd(listIdx, keys, weights).ret.err = "" THEN @ \cup DocIds(keys) ELSE @,
     !.lnp = IF LnpAdd(lnpIdx, keys, weights).ret.err = "" THEN @ \cup DocIds(keys) ELSE @,
     !.np = IF NpAdd(npIdx, keys, weights).ret.err = "" THEN @ \cup DocIds(keys) ELSE @,
     !.singleRow = @ /\ Len(keys) = 1 /\ Len(weights) = 1,
     !.reallocs = IF NpGrow(npIdx, Len(keys)) # npIdx THEN @ + 1 ELSE @]

Init ==
  /\ dictIdx = DictKeyIndexerInit
  /\ listIdx = ListKeyIndexerInit
  /\ lnpIdx = ListNumpyKeyIndexerInit
  /\ \E b \in InitBufferSizes :
       /\ npIdx = NumpyKeyIndexerInit(b, ColSizeDefault)
       /\ hist = HistInit(b)
  /\ call = [op |-> "init", keys |-> <<>>, weights |-> <<>>]
  /\ ret = [dict |-> Ok(<<>>), list |-> Ok(<<>>), lnp |-> Ok(<<>>), np |-> Ok(<<>>)]

Add(keys, weights) ==
  /\ dictIdx.num_chunks + Len(keys) <= MaxRows
  /\ call' = [op |-> "add", keys |-> keys, weights |-> weights]
  /\ dictIdx' = DictAdd(dictIdx, keys, weights).self
  /\ listIdx' = ListAdd(listIdx, keys, weights).self
  /\ lnpIdx' = LnpAdd(lnpIdx, keys, weights).self
  /\ npIdx' = NpAdd(npIdx, keys, weights).self
  /\ ret' = [dict |-> DictAdd(dictIdx, keys, weights).ret,
             list |-> ListAdd(listIdx, keys, weights).ret,
             lnp |-> LnpAdd(lnpIdx, keys, weights).ret,
             np |-> NpAdd(npIdx, keys, weights).ret]
  /\ hist' = HistAdd(keys, weights)

Query(keys) ==
  \E out \in LnpQuery(lnpIdx, keys) :
    /\ call' = [op |-> "query", keys |-> keys, weights |-> <<>>]
    /\ dictIdx' = DictQuery(dictIdx, keys).self
    /\ listIdx' = ListQuery(listIdx, keys).self
    /\ lnpIdx' = out.self
    /\ npIdx' = NpQuery(npIdx, keys).self
    /\ ret' = [dict |-> DictQuery(dictIdx, keys).ret,
               list |-> ListQuery(listIdx, keys).ret,
               lnp |-> out.ret,
               np |-> NpQuery(npIdx, keys).ret]
    /\ UNCHANGED hist

NumChunks ==
  /\ call' = [op |-> "num_chunks", keys |-> <<>>, weights |-> <<>>]
  /\ ret' = [dict |-> DictNumChunks(dictIdx), list |-> ListNumChunks(listIdx),
             lnp |-> ListNumChunks(lnpIdx), np |-> NpNumChunks(npIdx)]
  /\ UNCHANGED <<dictIdx, listIdx, lnpIdx, npIdx, hist>>

NumDoc ==
  /\ call' = [op |-> "num_doc", keys |-> <<>>, weights |-> <<>>]
  /\ ret' = [dict |-> DictNumDoc(dictIdx), list |-> ListNumDoc(listIdx),
             lnp |-> ListNumDoc(lnpIdx), np |-> NpNumDoc(npIdx)]
  /\ UNCHANGED <<dictIdx, listIdx, lnpIdx, npIdx, hist>>

NumChunksAvg ==
  /\ call' = [op |-> "num_chunks_avg", keys |-> <<>>, weights |-> <<>>]
  /\ ret' = [dict |-> DictNumChunksAvg(dictIdx), list |-> ListNumChunksAvg(listIdx),
             lnp |-> ListNumChunksAvg(lnpIdx), np |-> NpNumChunksAvg(npIdx)]
  /\ UNCHANGED <<dictIdx, listIdx, lnpIdx, npIdx, hist>>

\* Only NumpyKeyIndexer has the capacity property.
Capacity ==
  /\ call' = [op |-> "capacity", keys |-> <<>>, weights |-> <<>>]
  /\ ret' = [dict |-> Raise("AttributeError"), list |-> Raise("AttributeError"),
             lnp |-> Raise("AttributeError"), np |-> NpCapacity(npIdx)]
  /\ UNCHANGED <<dictIdx, listIdx, lnpIdx, npIdx, hist>>

Next ==
  \/ \E b \in Batches : Add(b.keys, b.weights)
  \/ \E keys \in QueryArgs : Query(keys)
  \/ NumChunks
  \/ NumDoc
  \/ NumChunksAvg
  \/ Capacity

Spec == Init /\ [][Next]_vars

\* The same calls, with every batch's records and weights of equal length.
NextEqualLen ==
  \/ \E b \in Batches : Len(b.keys) = Len(b.weights) /\ Add(b.keys, b.weights)
  \/ \E keys \in QueryArgs : Query(keys)
  \/ NumChunks
  \/ NumDoc
  \/ NumChunksAvg
  \/ Capacity

SpecEqualLen == Init /\ [][NextEqualLen]_vars

(***************************************************************************)
(* Properties.                                                             *)
(***************************************************************************)
\* The (document_id, offset, weight) triples of a batch.
Triples(keys, weights) == [i \in 1..Len(keys) |-> <<keys[i][1], keys[i][2], weights[i]>>]

\* The keys s, s+1, ..., s+l-1.
KeysFrom(s, l) == [i \in 1..l |-> s + i - 1]

\* C1: NumpyKeyIndexer: after an add of batch B (records and weights of equal
\* length) that returned, starting from size s, query([s, ..., s+len(B)-1])
\* returns exactly B's triples in order, whatever buffer_size the indexer was
\* constructed with.
C1_AddThenQueryReturnsBatch ==
  (call.op = "add" /\ ret.np.err = "" /\ Len(call.keys) = Len(call.weights)) =>
    NpQuery(npIdx, KeysFrom(npIdx.size - Len(call.keys), Len(call.keys))).ret
      = Ok(Triples(call.keys, call.weights))

C3_CapacityIsAllocatedRows ==
  /\ NpCapacity(npIdx).val = npIdx.int2key_info.shape[1]
  /\ npIdx.size <= NpCapacity(npIdx).val

\* C4: NumpyKeyIndexer: before any add capacity is the initial capacity the
\* constructor allocated; an add of l records with as many weights sets size to
\* size + l and, when size + l > capacity, capacity to
\* capacity + max(l, growth chunk), and leaves capacity unchanged otherwise.
C4_GrowthStep ==
  [][/\ call.op = "init" => NpCapacity(npIdx).val = npIdx.int2key_info.shape[1]
     /\ (call'.op = "add" /\ Len(call'.keys) = Len(call'.weights)) =>
          /\ npIdx'.size = npIdx.size + Len(call'.keys)
          /\ NpCapacity(npIdx').val =
               IF npIdx.size + Len(call'.keys) > NpCapacity(npIdx).val
               THEN NpCapacity(npIdx).val + Max(Len(call'.keys), BufferSizeDefault)
               ELSE NpCapacity(npIdx).val]_vars

\* C5: ListNumpyKeyIndexer: right after an add, query answers every key list as
\* ListKeyIndexer does after the same adds, whatever queries ran before.
C5_QueryAfterAddMatchesList ==
  call.op = "add" =>
    \A ks \in KeyLists : \A out \in LnpQuery(lnpIdx, ks) :
      out.ret = ListQuery(listIdx, ks).ret

\* C6: after the same batches of equally long records and weights, with at least
\* one key assigned, ListKeyIndexer, ListNumpyKeyIndexer and NumpyKeyIndexer
\* return the same triples for the keys 0..num_chunks-1, and their num_doc and
\* num_chunks_avg are equal.
C6_BackendsAgree ==
  listIdx.num_chunks >= 1 =>
    LET ks == KeysFrom(0, listIdx.num_chunks)
    IN  /\ \A out \in LnpQuery(lnpIdx, ks) : out.ret = ListQuery(listIdx, ks).ret
        /\ NpQuery(npIdx, ks).ret = ListQuery(listIdx, ks).ret
        /\ ListNumDoc(lnpIdx) = ListNumDoc(listIdx)
        /\ NpNumDoc(npIdx) = ListNumDoc(listIdx)
        /\ ListNumChunksAvg(lnpIdx) = ListNumChunksAvg(listIdx)
        /\ NpNumChunksAvg(npIdx) = ListNumChunksAvg(listIdx)

\* C7: ListKeyIndexer and ListNumpyKeyIndexer: add with len(keys) # len(weights)
\* raises ValueError and leaves every field of the indexer as it was, the
\* _data_updated flag and the cached arrays included.
C7_MismatchLeavesStateUnchanged ==
  [][(call'.op = "add" /\ Len(call'.keys) # Len(call'.weights)) =>
       /\ ret'.list.err = "ValueError" /\ listIdx' = listIdx
       /\ ret'.lnp.err = "ValueError" /\ lnpIdx' = lnpIdx]_vars

\* C8: on every indexer, a query whose key list holds a key never assigned (a
\* key >= num_chunks on the positional indexers, a key absent from the dict on
\* DictKeyIndexer) raises.
C8_UnassignedKeyRaises ==
  \A ks \in KeyLists :
    /\ (\E i \in 1..Len(ks) : ks[i] \notin DOMAIN dictIdx.key_info)
         => DictQuery(dictIdx, ks).ret.err # ""
    /\ (\E i \in 1..Len(ks) : ks[i] >= listIdx.num_chunks)
         => ListQuery(listIdx, ks).ret.err # ""
    /\ (\E i \in 1..Len(ks) : ks[i] >= lnpIdx.num_chunks)
         => \A out \in LnpQuery(lnpIdx, ks) : out.ret.err # ""
    /\ (\E i \in 1..Len(ks) : ks[i] >= npIdx.num_chunks)
         => NpQuery(npIdx, ks).ret.err # ""

\* C9: positional indexers: the number of stored rows equals num_chunks, so the
\* keys assigned are 0..num_chunks-1 (on the two list indexers these are exactly
\* the non-negative keys query answers), and an add that returns returns
\* num_chunks.
C9_SizeIsChunkCount ==
  /\ Len(listIdx.int2key) = listIdx.num_chunks
  /\ Len(listIdx.int2key_weight) = listIdx.num_chunks
  /\ Len(lnpIdx.int2key) = lnpIdx.num_chunks
  /\ Len(lnpIdx.int2key_weight) = lnpIdx.num_chunks
  /\ npIdx.size = npIdx.num_chunks
  /\ \A k \in 0..MaxRows :
       /\ ListQuery(listIdx, <<k>>).ret.err = "" <=> k < listIdx.num_chunks
       /\ \A out \in LnpQuery(lnpIdx, <<k>>) : out.ret.err = "" <=> k < lnpIdx.num_chunks
  /\ call.op = "add" =>
       /\ ret.list.err = "" => ret.list.val = ListNumChunks(listIdx).val
       /\ ret.lnp.err = "" => ret.lnp.val = ListNumChunks(lnpIdx).val
       /\ ret.np.err = "" => ret.np.val = NpNumChunks(npIdx).val

\* A second add has returned on all three positional indexers.
C9_Witness ==
  /\ call.op = "add" /\ Len(call.keys) >= 1
  /\ ret.list.err = "" /\ ret.lnp.err = "" /\ ret.np.err = ""
  /\ ret.list.val > Len(call.keys) /\ ret.np.val > Len(call.keys)

\* C10: DictKeyIndexer: num_chunks equals the number of entries of the dict, and
\* add returns num_chunks.
C10_DictChunkCountIsMapSize ==
  /\ DictNumChunks(dictIdx).val = Cardinality(DOMAIN dictIdx.key_info)
  /\ call.op = "add" => ret.dict.val = DictNumChunks(dictIdx).val

\* C11: on every indexer, DictKeyIndexer included, num_chunks_avg is
\* num_chunks / num_doc when num_doc > 0 and raises ZeroDivisionError when
\* num_doc = 0.
C11_AvgIsChunksPerDoc ==
  /\ DictNumChunksAvg(dictIdx) = TrueDiv(DictNumChunks(dictIdx).val, DictNumDoc(dictIdx).val)
  /\ ListNumChunksAvg(listIdx) = TrueDiv(ListNumChunks(listIdx).val, ListNumDoc(listIdx).val)
  /\ ListNumChunksAvg(lnpIdx) = TrueDiv(ListNumChunks(lnpIdx).val, ListNumDoc(lnpIdx).val)
  /\ NpNumChunksAvg(npIdx) = TrueDiv(NpNumChunks(npIdx).val, NpNumDoc(npIdx).val)

\* C12: no call, an add that raises included, lowers num_chunks on any indexer
\* or NumpyKeyIndexer's capacity.
C12_CountersNeverDecrease ==
  [][/\ DictNumChunks(dictIdx').val >= DictNumChunks(dictIdx).val
     /\ ListNumChunks(listIdx').val >= ListNumChunks(listIdx).val
     /\ ListNumChunks(lnpIdx').val >= ListNumChunks(lnpIdx).val
     /\ NpNumChunks(npIdx').val >= NpNumChunks(npIdx).val
     /\ NpCapacity(npIdx').val >= NpCapacity(npIdx).val]_vars

\* An add has raised on the positional indexers after earlier adds stored
\* records and grew the buffer.
C12_Witness ==
  /\ call.op = "add"
  /\ ret.list.err # "" /\ ret.lnp.err # "" /\ ret.np.err # ""
  /\ ListNumChunks(listIdx).val >= 2
  /\ NpNumChunks(npIdx).val >= 2
  /\ NpCapacity(npIdx).val > BufferSizeDefault

\* C13: num_doc is, on the three positional indexers, the number of distinct
\* document ids among the records of the adds that returned, and on
\* DictKeyIndexer the number of keys of the dict.
C13_DocumentCount ==
  /\ ListNumDoc(listIdx).val = Cardinality(hist.list)
  /\ ListNumDoc(lnpIdx).val = Cardinality(hist.lnp)
  /\ NpNumDoc(npIdx).val = Cardinality(hist.np)
  /\ DictNumDoc(dictIdx).val = Cardinality(DOMAIN dictIdx.key_info)

\* Three records of two documents have been added, one document twice.
C13_Witness ==
  /\ call.op = "add"
  /\ ListNumChunks(listIdx).val = 3 /\ ListNumDoc(listIdx).val = 2
  /\ ListNumChunks(lnpIdx).val = 3 /\ ListNumDoc(lnpIdx).val = 2
  /\ NpNumChunks(npIdx).val = 3 /\ NpNumDoc(npIdx).val = 2
  /\ DictNumDoc(dictIdx).val = 2

\* C14: ListNumpyKeyIndexer: every add leaves _data_updated set; a query that
\* finds the flag set, or no cached array, rebuilds both arrays from the whole
\* lists and leaves the flag clear; a query that follows a query with no add in
\* between rebuilds nothing.
C14_CacheStateMachine ==
  [][/\ call'.op = "add" => lnpIdx'.data_updated
     /\ (call'.op = "query" /\ (lnpIdx.data_updated \/ lnpIdx.np_int2key.isNone)) =>
          /\ lnpIdx'.np_int2key = ArrayOfTuples(lnpIdx.int2key, 2)
          /\ lnpIdx'.np_int2key_weight = ArrayOfScalars(lnpIdx.int2key_weight)
          /\ ~lnpIdx'.data_updated
     /\ (call.op = "query" /\ call'.op = "query") =>
          LnpBuildDecisions(lnpIdx) = {"skip"}]_vars

\* C15: NumpyKeyIndexer: in every state, the one an add that raised leaves
\* included, every allocated row from _size up to capacity holds zero in every
\* column.
C15_ReservedRowsZero ==
  \A r \in (npIdx.size + 1)..Min(NpCapacity(npIdx).val, npIdx.int2key_info.shape[1]) :
    \A c \in 1..npIdx.col_size : npIdx.int2key_info.data[r][c] = 0

\* C16: NumpyKeyIndexer: an add with len(keys) # len(weights) raises, and leaves
\* _size, capacity, num_chunks and the document ids seen as they were.
C16_MismatchNeverSucceeds ==
  [][(call'.op = "add" /\ Len(call'.keys) # Len(call'.weights)) =>
       /\ ret'.np.err # ""
       /\ npIdx'.size = npIdx.size
       /\ NpCapacity(npIdx') = NpCapacity(npIdx)
       /\ NpNumChunks(npIdx') = NpNumChunks(npIdx)
       /\ npIdx'.all_docs = npIdx.all_docs]_vars

\* The position in zip(keys, weights) of the last pair whose key is k, or 0 when
\* no pair has it.
LastPair(keys, weights, k) ==
  LET s == {i \in 1..Min(Len(keys), Len(weights)) : keys[i][1] = k}
  IN  IF s = {} THEN 0 ELSE CHOOSE i \in s : \A j \in s : j <= i

\* C17: DictKeyIndexer: after an add, query([k]) returns, for every key k of the
\* dict, the offset and weight of the last pair of the batch whose key is k, and
\* what it returned before the add when the batch has no such pair; no key is
\* lost; and query over several keys returns the triple of each key in the
\* order asked.
C17_LastWriteWins ==
  [][call'.op = "add" =>
       /\ DOMAIN dictIdx.key_info \subseteq DOMAIN dictIdx'.key_info
       /\ \A k \in DOMAIN dictIdx'.key_info :
            LET i == LastPair(call'.keys, call'.weights, k)
            IN  IF i > 0
                THEN DictQuery(dictIdx', <<k>>).ret
                       = Ok(<< <<k, call'.keys[i][2], call'.weights[i]>> >>)
                ELSE /\ DictQuery(dictIdx, <<k>>).ret.err = ""
                     /\ DictQuery(dictIdx', <<k>>).ret = DictQuery(dictIdx, <<k>>).ret
       /\ \A ks \in KeyLists :
            (\A i \in 1..Len(ks) : ks[i] \in DOMAIN dictIdx'.key_info) =>
              DictQuery(dictIdx', ks).ret
                = Ok([i \in 1..Len(ks) |-> DictQuery(dictIdx', <<ks[i]>>).ret.val[1]])]_vars

\* The last add wrote key 0 twice and left key 1, added before, alone.
C17_Witness ==
  /\ call.op = "add"
  /\ LastPair(call.keys, call.weights, 0) = 2
  /\ LastPair(call.keys, call.weights, 1) = 0
  /\ DOMAIN dictIdx.key_info = {0, 1}
  /\ DictQuery(dictIdx, <<0, 1>>).ret.err = ""
  /\ DictQuery(dictIdx, <<0>>).ret.val[1][2] = call.keys[2][2]

\* C18: query and the statistics properties change no indexer, whether they
\* return or raise, except that ListNumpyKeyIndexer's two cached arrays and its
\* _data_updated flag may change.
C18_QueryAndAccessorsReadOnly ==
  [][call'.op \in {"query", "num_chunks", "num_doc", "num_chunks_avg", "capacity"} =>
       /\ dictIdx' = dictIdx
       /\ listIdx' = listIdx
       /\ npIdx' = npIdx
       /\ [lnpIdx' EXCEPT !.np_int2key = lnpIdx.np_int2key,
                          !.np_int2key_weight = lnpIdx.np_int2key_weight,
                          !.data_updated = lnpIdx.data_updated] = lnpIdx]_vars

\* A query has raised on DictKeyIndexer and returned on the positional
\* indexers, ListNumpyKeyIndexer having built its arrays from two records or
\* more.
C18_Witness ==
  /\ call.op = "query"
  /\ ret.dict.err = "KeyError"
  /\ ret.list.err = "" /\ ret.lnp.err = "" /\ ret.np.err = ""
  /\ Len(lnpIdx.int2key) >= 2
  /\ lnpIdx.np_int2key = ArrayOfTuples(lnpIdx.int2key, 2)

\* ceil(n / c) for n >= 0 and c > 0.
CeilDiv(n, c) == (n + c - 1) \div c

\* C19: NumpyKeyIndexer constructed with buffer_size = 0: while every add has
\* passed one record and one weight, each add returned, the number of adds that
\* ran np.concatenate is ceil(n / _buffer_size) for the n records added, and
\* query returns all n records.
C19_ReallocationCount ==
  (hist.initRows = 0 /\ hist.singleRow) =>
    /\ call.op = "add" => ret.np.err = ""
    /\ hist.reallocs = CeilDiv(NpNumChunks(npIdx).val, npIdx.buffer_size)
    /\ NpQuery(npIdx, KeysFrom(0, NpNumChunks(npIdx).val)).ret
         = ListQuery(listIdx, KeysFrom(0, NpNumChunks(npIdx).val)).ret

\* C20: in every state, on ListKeyIndexer, ListNumpyKeyIndexer and
\* NumpyKeyIndexer, add([], []) returns num_chunks and changes no field (but
\* ListNumpyKeyIndexer's _data_updated flag), and query([]) returns [].
C20_EmptyInputsHarmless ==
  /\ ListAdd(listIdx, <<>>, <<>>) = [self |-> listIdx, ret |-> ListNumChunks(listIdx)]
  /\ LnpAdd(lnpIdx, <<>>, <<>>).ret = ListNumChunks(lnpIdx)
  /\ [LnpAdd(lnpIdx, <<>>, <<>>).self EXCEPT !.data_updated = lnpIdx.data_updated] = lnpIdx
  /\ NpAdd(npIdx, <<>>, <<>>) = [self |-> npIdx, ret |-> NpNumChunks(npIdx)]
  /\ ListQuery(listIdx, <<>>).ret = Ok(<<>>)
  /\ \A out \in LnpQuery(lnpIdx, <<>>) : out.ret = Ok(<<>>)
  /\ NpQuery(npIdx, <<>>).ret = Ok(<<>>)

====
